---- MODULE Spec2Model ----
(***************************************************************************)
(* A model of power_bot.py: the SQLite-backed store (bans, warns, links),  *)
(* the in-memory sliding-window spam tracker, the link filter and the      *)
(* update handlers (text messages, member joins, owner commands).          *)
(*                                                                         *)
(* A handler is one action: the dispatcher built by ApplicationBuilder()   *)
(* processes updates one after the other.  Every call a handler makes to   *)
(* the Telegram API (the gateway) or to SQLite (the store) may raise; the  *)
(* outcome of each call is an input of the action.  The calls a handler    *)
(* made, in order, and whether an exception left the handler are recorded  *)
(* in the variable last.                                                   *)
(*                                                                         *)
(* Message texts and links are sequences over a small alphabet of lexical  *)
(* units ("http", "s", "://", letters in both cases, a blank): no unit is   *)
(* a substring of another one or overlaps one, so the substring relation   *)
(* on the sequences is the one on the strings they spell.                  *)
(***************************************************************************)
EXTENDS Integers, Sequences, FiniteSets, TLC

VARIABLES
    now,             \* datetime.utcnow(), in seconds
    user_msg_times,  \* user id -> deque of the times of its messages
    bans,            \* table bans: user id -> reason, or NoRow
    warns,           \* table warns: user id -> count, 0 when there is no row
    links,           \* table links: the set of allowed links
    last,            \* the update handled last: its inputs, calls and outcome
    sent,            \* history: user id -> every time passed to add_message_time
    pc,              \* concurrent handlers: task -> the await it is suspended at
    tret,            \* concurrent handlers: task -> what its warn_user_db returned
    db_file,         \* the file DB_PATH: the tables as last committed
    returned         \* history: user id -> what warn_user_db returned, in order

vars == <<now, user_msg_times, bans, warns, links, last, sent, pc, tret,
          db_file, returned>>

----------------------------------------------------------------------------
(* Configuration (environment variables) and the sets inputs are drawn from *)

\* OWNER_ID: the environment variable, here user 1.
OWNER_ID == 1
\* ALLOWED_CHAT_IDS: the environment variable, here the single chat 10.
ALLOWED_CHAT_IDS == {10}
\* SPAM_MAX: SPAM_MAX_MSG_PER_MIN of the environment (default 20), here 2.
SPAM_MAX == 2
\* timedelta(seconds=60) of add_message_time
WINDOW == 60
\* warns >= 3 of message_handler
BAN_WARNS == 3

\* The members of the chats (the owner aside), and the chats.
Members == {2, 3}
Chats == {10, 11}

\* Bounds of the model.
MaxTime == 122
MaxWarns == 3
MaxWindow == 5
MaxSent == 3
MaxText == 4
MaxTasks == 3
MaxCalls == 3
MaxBurst == 5

NoRow == "none"
None == 0

----------------------------------------------------------------------------
(* Texts *)

Alphabet == {"http", "HTTP", "s", "://", "a", "A", "ban", " "}

\* str.lower() of one unit.
LowerUnit(c) ==
    CASE c = "HTTP" -> "http"
      [] c = "A" -> "a"
      [] OTHER -> c

\* str.lower()
lower(text) == [i \in 1..Len(text) |-> LowerUnit(text[i])]

\* sub in text (Python's substring test on str)
IsSubstring(sub, text) ==
    \E k \in 0..(Len(text) - Len(sub)) :
        \A i \in 1..Len(sub) : text[k + i] = sub[i]

\* \S of the regular expression
NonSpace(c) == c # " "

\* LINK_REGEX.findall(text): the positions where https?://\S+ matches.
LINK_REGEX_findall(text) ==
    {i \in 1..Len(text) :
        /\ text[i] = "http"
        /\ IF i + 1 <= Len(text) /\ text[i + 1] = "s"
             THEN /\ i + 3 <= Len(text)
                  /\ text[i + 2] = "://"
                  /\ NonSpace(text[i + 3])
             ELSE /\ i + 2 <= Len(text)
                  /\ text[i + 1] = "://"
                  /\ NonSpace(text[i + 2])}

\* contains_allowed_link with `l in txt` in place of `l.lower() in txt`.
contains_allowed_link_nolower(text, ls) ==
    IF ls = {} THEN FALSE
    ELSE \E l \in ls : l # <<>> /\ IsSubstring(l, lower(text))

\* contains_allowed_link(text), ls being what list_allowed_links() returned.
contains_allowed_link(text, ls) ==
    IF ls = {} THEN FALSE
    ELSE \E l \in ls : l # <<>> /\ IsSubstring(lower(l), lower(text))

\* any(w in text for w in ["বান", "remove", "ban"])
IsFaq(text) == \E i \in 1..Len(text) : text[i] = "ban"

----------------------------------------------------------------------------
(* Spam tracker *)

RECURSIVE popleft_while(_, _)
\* while dq and dq[0] < cutoff: dq.popleft()
popleft_while(dq, cutoff) ==
    IF dq # <<>> /\ dq[1] < cutoff THEN popleft_while(Tail(dq), cutoff) ELSE dq

RECURSIVE popleft_while_le(_, _)
\* while dq and dq[0] <= cutoff: dq.popleft()
popleft_while_le(dq, cutoff) ==
    IF dq # <<>> /\ dq[1] <= cutoff THEN popleft_while_le(Tail(dq), cutoff) ELSE dq

\* add_message_time with dq[0] <= cutoff in place of dq[0] < cutoff: the
\* entries that are exactly 60 s old are evicted too.
add_message_time_le(dq, t) == popleft_while_le(Append(dq, t), t - WINDOW)

\* add_message_time(user_id): the user's deque after the call, dq being the
\* deque before it and t the value of datetime.utcnow(); len() of the result
\* is what the call returns.
add_message_time(dq, t) == popleft_while(Append(dq, t), t - WINDOW)

----------------------------------------------------------------------------
(* Store *)

\* reset_warns_db with no row deleted.
reset_warns_db_keep(w, u) == w

\* ban_user_db with INSERT OR IGNORE: a row that exists is kept.
ban_user_db_ignore(b, u, reason) ==
    IF b[u] # NoRow THEN b ELSE [b EXCEPT ![u] = reason]

\* warn_user_db taking the else branch (cnt = 1) whether or not a row exists.
warn_user_db_cnt_insert(w, u) == 1

\* warn_user_db: the value of cnt, w being the table warns.
warn_user_db_cnt(w, u) == IF w[u] # 0 THEN w[u] + 1 ELSE 1

\* warn_user_db: the table after the UPDATE or INSERT and the commit.
warn_user_db(w, u) == [w EXCEPT ![u] = warn_user_db_cnt(w, u)]

\* ban_user_db: INSERT OR REPLACE INTO bans
ban_user_db(b, u, reason) == [b EXCEPT ![u] = reason]

\* unban_user_db: DELETE FROM bans WHERE user_id=?
unban_user_db(b, u) == [b EXCEPT ![u] = NoRow]

\* is_banned_db: SELECT 1 FROM bans WHERE user_id=?
is_banned_db(b, u) == b[u] # NoRow

\* reset_warns_db: DELETE FROM warns WHERE user_id=?
reset_warns_db(w, u) == [w EXCEPT ![u] = 0]

\* remove_allowed_link with no WHERE clause: every row is deleted.
remove_allowed_link_all(ls, l) == {}

\* add_allowed_link: INSERT OR IGNORE INTO links
add_allowed_link(ls, l) == ls \cup {l}

\* remove_allowed_link: DELETE FROM links WHERE link=?
remove_allowed_link(ls, l) == ls \ {l}

\* The three tables, as the connection DB or as the file holds them.
Tables(b, w, l) == [bans |-> b, warns |-> w, links |-> l]

\* The tables of a database that init_db has just created.
EmptyTables == Tables([u \in Members |-> NoRow], [u \in Members |-> 0], {})

\* A function that writes and returns without DB.commit(): the file is as
\* it was.
commit_lost(b, w, l) == db_file

\* DB.commit(), the last statement of every function that writes: the file
\* (a sequence, empty while the file does not exist) holds the tables of the
\* connection.
commit(b, w, l) == <<Tables(b, w, l)>>

\* init_db creating the table warns anew: its rows are lost.
init_db_new_warns(f) ==
    IF f = <<>> THEN EmptyTables ELSE [f[1] EXCEPT !.warns = EmptyTables.warns]

\* init_db creating the table bans anew: its rows are lost.
init_db_new_bans(f) ==
    IF f = <<>> THEN EmptyTables ELSE [f[1] EXCEPT !.bans = EmptyTables.bans]

\* init_db: connect to the file f and CREATE TABLE IF NOT EXISTS; the tables
\* of the new connection.
init_db(f) == IF f = <<>> THEN EmptyTables ELSE f[1]

----------------------------------------------------------------------------
(* What a handler did *)

\* One call to the store or to the gateway: the function called, which
\* message a reply carried, the user it was about and whether it returned
\* (ok) or raised.
Call(op, tag, who, ok) == [op |-> op, tag |-> tag, who |-> who, ok |-> ok]

\* The update handled: the handler, the chat, the sender, the text (of a
\* message), the link (of /addlink, /removelink) or the new members (of a
\* join), the target of a command, what add_message_time and
\* warn_user_db returned (0: not called), the calls made and whether an
\* exception left the handler.
Ev(kind, chat, user, text, target, count, cnt, log, raised) ==
    [kind |-> kind, chat |-> chat, user |-> user, text |-> text,
     target |-> target, count |-> count, cnt |-> cnt, log |-> log,
     raised |-> raised]

\* No update handled yet (after the construction, or after a restart).
NoEv(kind) == Ev(kind, 0, 0, <<>>, None, 0, 0, <<>>, FALSE)

\* The state a handler leaves: the spam tracker, the three tables (committed
\* to the file by the functions that wrote them) and the record of the update.
Done(umt2, b2, w2, l2, ev) ==
    /\ user_msg_times' = umt2
    /\ bans' = b2
    /\ warns' = w2
    /\ links' = l2
    /\ last' = ev
    /\ db_file' = IF <<b2, w2, l2>> = <<bans, warns, links>> THEN db_file
                  ELSE commit(b2, w2, l2)
    /\ UNCHANGED <<now, pc, tret>>

----------------------------------------------------------------------------
(* message_handler *)

\* The except branch of the spam path: reply "Failed to ban (missing
\* permissions)."; a failure of this reply leaves the handler.
spam_except(chat, u, text, umt2, count, b2, w2, log) ==
    \E okF \in BOOLEAN :
        Done(umt2, b2, w2, links,
             Ev("message", chat, u, text, None, count, w2[u],
                Append(log, Call("reply_text", "failed_ban", u, okF)), ~okF))

\* if count > SPAM_MAX: warn, and ban when warns >= 3
spam_path(chat, u, text, umt2, count) ==
    /\ warns[u] < MaxWarns
    /\ \E okW \in BOOLEAN :
        IF ~okW
        THEN Done(umt2, bans, warns, links,
                  Ev("message", chat, u, text, None, count, 0,
                     <<Call("warn_user_db", "", u, FALSE)>>, TRUE))
        ELSE
          LET w2 == warn_user_db(warns, u)
              cnt == w2[u]
              log1 == <<Call("warn_user_db", "", u, TRUE)>>
          IN \E okR \in BOOLEAN :
              LET log2 == Append(log1, Call("reply_text", "warn", u, okR)) IN
              IF ~okR
              THEN Done(umt2, bans, w2, links,
                        Ev("message", chat, u, text, None, count, cnt, log2, TRUE))
              ELSE IF cnt >= BAN_WARNS
              THEN \E okB \in BOOLEAN :
                  LET log3 == Append(log2, Call("ban_chat_member", "", u, okB)) IN
                  IF ~okB
                  THEN spam_except(chat, u, text, umt2, count, bans, w2, log3)
                  ELSE \E okD \in BOOLEAN :
                      LET log4 == Append(log3, Call("ban_user_db", "spam", u, okD)) IN
                      IF ~okD
                      THEN spam_except(chat, u, text, umt2, count, bans, w2, log4)
                      ELSE \E okN \in BOOLEAN :
                          LET b2 == ban_user_db(bans, u, "spam")
                              log5 == Append(log4, Call("reply_text", "banned", u, okN))
                          IN IF ~okN
                             THEN spam_except(chat, u, text, umt2, count, b2, w2, log5)
                             ELSE Done(umt2, b2, w2, links,
                                       Ev("message", chat, u, text, None, count,
                                          cnt, log5, FALSE))
              ELSE Done(umt2, bans, w2, links,
                        Ev("message", chat, u, text, None, count, cnt, log2, FALSE))

\* The rest of the link path, after the try block that bans: the private
\* message (its failure is passed over) and the notice in the chat.
link_notify(chat, u, text, umt2, count, b2, log) ==
    \E okP \in BOOLEAN, okN \in BOOLEAN :
        Done(umt2, b2, warns, links,
             Ev("message", chat, u, text, None, count, 0,
                log \o <<Call("send_message", "", u, okP),
                         Call("reply_text", "removed", u, okN)>>, ~okN))

\* The except branch of the link path: reply "I need ban rights to remove
\* offenders." and return.
link_except(chat, u, text, umt2, count, log) ==
    \E okF \in BOOLEAN :
        Done(umt2, bans, warns, links,
             Ev("message", chat, u, text, None, count, 0,
                Append(log, Call("reply_text", "need_rights", u, okF)), ~okF))

\* text = msg.text.lower(); the link filter, then the automatic reply
link_path(chat, u, text, umt2, count) ==
    LET txt == lower(text) IN
    IF LINK_REGEX_findall(txt) # {}
    THEN \E okL \in BOOLEAN :
        LET log1 == <<Call("list_allowed_links", "", u, okL)>> IN
        IF ~okL
        THEN Done(umt2, bans, warns, links,
                  Ev("message", chat, u, text, None, count, 0, log1, TRUE))
        ELSE IF contains_allowed_link(txt, links)
        THEN Done(umt2, bans, warns, links,
                  Ev("message", chat, u, text, None, count, 0, log1, FALSE))
        ELSE \E okX \in BOOLEAN, okB \in BOOLEAN :
            LET log3 == log1 \o <<Call("delete_message", "", u, okX),
                                  Call("ban_chat_member", "", u, okB)>>
            IN IF ~okB
               THEN link_except(chat, u, text, umt2, count, log3)
               ELSE \E okD \in BOOLEAN :
                   LET log4 == Append(log3, Call("ban_user_db",
                                                 "posted_disallowed_link", u, okD))
                   IN IF ~okD
                      THEN link_except(chat, u, text, umt2, count, log4)
                      ELSE link_notify(chat, u, text, umt2, count,
                                       ban_user_db(bans, u, "posted_disallowed_link"),
                                       log4)
    ELSE IF IsFaq(txt)
    THEN \E okN \in BOOLEAN :
        Done(umt2, bans, warns, links,
             Ev("message", chat, u, text, None, count, 0,
                <<Call("reply_text", "faq", u, okN)>>, ~okN))
    ELSE Done(umt2, bans, warns, links,
              Ev("message", chat, u, text, None, count, 0, <<>>, FALSE))

\* The chat filter with its test left out: no chat is ignored.
chat_not_allowed_off(chat) == FALSE

\* if ALLOWED_CHAT_IDS and chat.id not in ALLOWED_CHAT_IDS: return
chat_not_allowed(chat) == ALLOWED_CHAT_IDS # {} /\ chat \notin ALLOWED_CHAT_IDS

\* The test of the count true only for the message that crosses SPAM_MAX.
over_spam_max_once(count) == count = SPAM_MAX + 1

\* The test of the count left out: every message goes on to the link filter.
over_spam_max_never(count) == FALSE

\* if count > SPAM_MAX
over_spam_max(count) == count > SPAM_MAX

\* message_handler for the text message `text` of user u in chat `chat`.
\* (The handler is registered for filters.TEXT & ~filters.COMMAND: msg.text
\* is never empty.)  The two guards keep the window and the count of warns
\* within the bounds of the model.
message_handler(chat, u, text) ==
    IF chat_not_allowed(chat)
    THEN Done(user_msg_times, bans, warns, links,
              Ev("message", chat, u, text, None, 0, 0, <<>>, FALSE))
    ELSE IF u = OWNER_ID
    THEN Done(user_msg_times, bans, warns, links,
              Ev("message", chat, u, text, None, 0, 0, <<>>, FALSE))
    ELSE
      LET dq == add_message_time(user_msg_times[u], now)
          umt2 == [user_msg_times EXCEPT ![u] = dq]
          count == Len(dq)
      IN /\ count <= MaxWindow
         /\ IF over_spam_max(count)
            THEN spam_path(chat, u, text, umt2, count)
            ELSE link_path(chat, u, text, umt2, count)

----------------------------------------------------------------------------
(* new_member_handler *)

\* One turn of the loop, for member m, log being the calls made so far: the
\* calls made after it and whether an exception left the handler.
join_member(b, m, log) ==
    {[log |-> Append(log, Call("is_banned_db", "", m, FALSE)), raised |-> TRUE]}
    \cup
    (LET log1 == Append(log, Call("is_banned_db", "", m, TRUE)) IN
     IF is_banned_db(b, m)
     THEN {[log |-> Append(log1, Call("ban_chat_member", "", m, FALSE)),
            raised |-> FALSE]}
          \cup
          {[log |-> log1 \o <<Call("ban_chat_member", "", m, TRUE),
                              Call("unban_chat_member", "", m, okU)>>,
            raised |-> FALSE] : okU \in BOOLEAN}
     ELSE {[log |-> Append(log1, Call("reply_text", "welcome", m, okN)),
            raised |-> ~okN] : okN \in BOOLEAN})

RECURSIVE join_loop(_, _, _)
\* for m in update.message.new_chat_members
join_loop(b, ms, log) ==
    IF ms = <<>> THEN {[log |-> log, raised |-> FALSE]}
    ELSE UNION {IF r.raised THEN {r} ELSE join_loop(b, Tail(ms), r.log) :
                    r \in join_member(b, Head(ms), log)}

\* new_member_handler for the new members ms of chat `chat`
new_member_handler(chat, ms) ==
    \E r \in join_loop(bans, ms, <<>>) :
        Done(user_msg_times, bans, warns, links,
             Ev("new_member", chat, 0, ms, None, 0, 0, r.log, r.raised))

----------------------------------------------------------------------------
(* Owner commands *)

NoArgs == [kind |-> "none", id |-> 0]

\* cmd_guard with owner_only left out: only context.args is checked.
cmd_guard_open(u, arg) ==
    IF arg = NoArgs
    THEN {[log |-> <<Call("reply_text", "usage", u, ok)>>, raised |-> ~ok,
           go |-> FALSE] : ok \in BOOLEAN}
    ELSE {[log |-> <<>>, raised |-> FALSE, go |-> TRUE]}

\* owner_only and the check of context.args: the calls made, whether an
\* exception left the handler, and whether the command goes on.
cmd_guard(u, arg) ==
    IF u # OWNER_ID
    THEN {[log |-> <<Call("reply_text", "not_owner", u, ok)>>, raised |-> ~ok,
           go |-> FALSE] : ok \in BOOLEAN}
    ELSE IF arg = NoArgs
    THEN {[log |-> <<Call("reply_text", "usage", u, ok)>>, raised |-> ~ok,
           go |-> FALSE] : ok \in BOOLEAN}
    ELSE {[log |-> <<>>, raised |-> FALSE, go |-> TRUE]}

\* resolve_username_to_id: get_chat's id, or None when get_chat raises.
resolve_username_to_id(arg, ok) == IF ok THEN arg.id ELSE None

\* The target of a command: int(target) when target.isdigit(), else
\* resolve_username_to_id; "User not found." when it is 0 or None.
cmd_target(u, arg) ==
    UNION {IF ~g.go THEN {[log |-> g.log, raised |-> g.raised, go |-> FALSE,
                           target |-> None]}
           ELSE UNION {
             LET t == IF arg.kind = "id" THEN arg.id
                      ELSE resolve_username_to_id(arg, okG)
                 log1 == IF arg.kind = "id" THEN <<>>
                         ELSE <<Call("get_chat", "", arg.id, okG)>>
             IN IF t = None
                THEN {[log |-> Append(log1, Call("reply_text", "not_found", u, ok)),
                       raised |-> ~ok, go |-> FALSE, target |-> None] :
                         ok \in BOOLEAN}
                ELSE {[log |-> log1, raised |-> FALSE, go |-> TRUE, target |-> t]}
             : okG \in BOOLEAN}
           : g \in cmd_guard(u, arg)}

\* A command that returned before acting.
cmd_stop(name, chat, u, r) ==
    Done(user_msg_times, bans, warns, links,
         Ev(name, chat, u, <<>>, r.target, 0, 0, r.log, r.raised))

\* cmd_addlink
cmd_addlink(chat, u, arg) ==
    \E g \in cmd_guard(u, arg) :
        IF ~g.go
        THEN Done(user_msg_times, bans, warns, links,
                  Ev("addlink", chat, u, <<>>, None, 0, 0, g.log, g.raised))
        ELSE \E okD \in BOOLEAN :
            IF ~okD
            THEN Done(user_msg_times, bans, warns, links,
                      Ev("addlink", chat, u, arg.id, None, 0, 0,
                         <<Call("add_allowed_link", "", u, FALSE)>>, TRUE))
            ELSE \E okN \in BOOLEAN :
                Done(user_msg_times, bans, warns, add_allowed_link(links, arg.id),
                     Ev("addlink", chat, u, arg.id, None, 0, 0,
                        <<Call("add_allowed_link", "", u, TRUE),
                          Call("reply_text", "added", u, okN)>>, ~okN))

\* cmd_removelink
cmd_removelink(chat, u, arg) ==
    \E g \in cmd_guard(u, arg) :
        IF ~g.go
        THEN Done(user_msg_times, bans, warns, links,
                  Ev("removelink", chat, u, <<>>, None, 0, 0, g.log, g.raised))
        ELSE \E okD \in BOOLEAN :
            IF ~okD
            THEN Done(user_msg_times, bans, warns, links,
                      Ev("removelink", chat, u, arg.id, None, 0, 0,
                         <<Call("remove_allowed_link", "", u, FALSE)>>, TRUE))
            ELSE \E okN \in BOOLEAN :
                Done(user_msg_times, bans, warns, remove_allowed_link(links, arg.id),
                     Ev("removelink", chat, u, arg.id, None, 0, 0,
                        <<Call("remove_allowed_link", "", u, TRUE),
                          Call("reply_text", "removed_link", u, okN)>>, ~okN))

\* cmd_listlinks
cmd_listlinks(chat, u) ==
    \E g \in cmd_guard(u, [kind |-> "id", id |-> 0]) :
        IF ~g.go
        THEN Done(user_msg_times, bans, warns, links,
                  Ev("listlinks", chat, u, <<>>, None, 0, 0, g.log, g.raised))
        ELSE \E okD \in BOOLEAN :
            IF ~okD
            THEN Done(user_msg_times, bans, warns, links,
                      Ev("listlinks", chat, u, <<>>, None, 0, 0,
                         <<Call("list_allowed_links", "", u, FALSE)>>, TRUE))
            ELSE \E okN \in BOOLEAN :
                Done(user_msg_times, bans, warns, links,
                     Ev("listlinks", chat, u, <<>>, None, 0, 0,
                        <<Call("list_allowed_links", "", u, TRUE),
                          Call("reply_text",
                               IF links = {} THEN "no_links" ELSE "links", u, okN)>>,
                        ~okN))

\* cmd_ban, registered for /ban and for /kick (name)
cmd_ban(name, chat, u, arg) ==
    \E r \in cmd_target(u, arg) :
        IF ~r.go THEN cmd_stop(name, chat, u, r)
        ELSE \E okD \in BOOLEAN :
            LET t == r.target
                log1 == Append(r.log, Call("ban_user_db", "manual", t, okD))
            IN IF ~okD
               THEN Done(user_msg_times, bans, warns, links,
                         Ev(name, chat, u, <<>>, t, 0, 0, log1, TRUE))
               ELSE \E okB \in BOOLEAN, okN \in BOOLEAN :
                   Done(user_msg_times, ban_user_db(bans, t, "manual"), warns, links,
                        Ev(name, chat, u, <<>>, t, 0, 0,
                           log1 \o <<Call("ban_chat_member", "", t, okB),
                                     Call("reply_text", "banned_ok", t, okN)>>,
                           ~okN))

\* cmd_unban
cmd_unban(chat, u, arg) ==
    \E r \in cmd_target(u, arg) :
        IF ~r.go THEN cmd_stop("unban", chat, u, r)
        ELSE \E okD \in BOOLEAN :
            LET t == r.target
                log1 == Append(r.log, Call("unban_user_db", "", t, okD))
            IN IF ~okD
               THEN Done(user_msg_times, bans, warns, links,
                         Ev("unban", chat, u, <<>>, t, 0, 0, log1, TRUE))
               ELSE \E okB \in BOOLEAN, okN \in BOOLEAN :
                   Done(user_msg_times, unban_user_db(bans, t), warns, links,
                        Ev("unban", chat, u, <<>>, t, 0, 0,
                           log1 \o <<Call("unban_chat_member", "", t, okB),
                                     Call("reply_text", "unbanned_ok", t, okN)>>,
                           ~okN))

\* cmd_warn
cmd_warn(chat, u, arg) ==
    \E r \in cmd_target(u, arg) :
        IF ~r.go THEN cmd_stop("warn", chat, u, r)
        ELSE /\ warns[r.target] < MaxWarns
             /\ \E okD \in BOOLEAN :
                 LET t == r.target
                     log1 == Append(r.log, Call("warn_user_db", "", t, okD))
                 IN IF ~okD
                    THEN Done(user_msg_times, bans, warns, links,
                              Ev("warn", chat, u, <<>>, t, 0, 0, log1, TRUE))
                    ELSE \E okN \in BOOLEAN :
                        LET w2 == warn_user_db(warns, t) IN
                        Done(user_msg_times, bans, w2, links,
                             Ev("warn", chat, u, <<>>, t, 0, w2[t],
                                Append(log1, Call("reply_text", "warned", t, okN)),
                                ~okN))

\* cmd_mute and cmd_unmute (name): restrict_chat_member and the reply in one
\* try block, the except branch replying "Failed to mute" / "Failed to unmute".
cmd_mute(name, chat, u, arg) ==
    \E r \in cmd_target(u, arg) :
        IF ~r.go THEN cmd_stop(name, chat, u, r)
        ELSE \E okB \in BOOLEAN, okN \in BOOLEAN, okF \in BOOLEAN :
            LET t == r.target
                log1 == Append(r.log, Call("restrict_chat_member", name, t, okB))
                log2 == IF okB THEN Append(log1, Call("reply_text", "done", t, okN))
                        ELSE log1
                failed == ~okB \/ ~okN
                log3 == IF failed
                        THEN Append(log2, Call("reply_text", "failed", t, okF))
                        ELSE log2
            IN Done(user_msg_times, bans, warns, links,
                    Ev(name, chat, u, <<>>, t, 0, 0, log3, failed /\ ~okF))

----------------------------------------------------------------------------
(* The bot: updates handled one at a time *)

\* The texts members send: no link, a word of the automatic reply, a link
\* that the allowed link "A" covers, a link that it does not cover.
Texts == {<<"a">>, <<"ban">>, <<"http", "://", "a">>, <<"http", "s", "://", "s">>}

\* The links the owner adds and removes.
LinkArgs == {[kind |-> "link", id |-> <<"A">>]}

\* The arguments of /ban, /unban, /warn, /mute, /unmute about the users in
\* T: none, a number, or a username (id: the id get_chat returns for it when
\* it succeeds).
TargetArgs(T) ==
    {NoArgs} \cup {[kind |-> "id", id |-> n] : n \in {0} \cup T}
             \cup {[kind |-> "name", id |-> n] : n \in T}

\* The seconds that pass between two updates: enough to empty every window.
Deltas == {61}

\* The users who send updates, and the members the commands are about.
Senders == {OWNER_ID, 2}
Targets == {2}

Init ==
    /\ now = 0
    /\ user_msg_times = [u \in Members |-> <<>>]
    /\ bans = [u \in Members |-> NoRow]
    /\ warns = [u \in Members |-> 0]
    /\ links = {}
    /\ last = NoEv("start")
    /\ sent = [u \in Members |-> <<>>]
    /\ pc = <<>>
    /\ tret = <<>>
    /\ db_file = <<Tables(bans, warns, links)>>
    /\ returned = [u \in Members |-> <<>>]

\* Time passes, by one of the steps D.
Tick(D) ==
    /\ \E d \in D : now + d <= MaxTime /\ now' = now + d
    /\ UNCHANGED <<user_msg_times, bans, warns, links, last, sent, pc, tret,
                   db_file, returned>>

\* The process stops and starts again: the module is loaded anew, so
\* user_msg_times is an empty defaultdict and DB = init_db() opens the file.
Restart ==
    LET t == init_db(db_file) IN
    /\ user_msg_times' = [u \in Members |-> <<>>]
    /\ bans' = t.bans
    /\ warns' = t.warns
    /\ links' = t.links
    /\ db_file' = commit(t.bans, t.warns, t.links)
    /\ last' = NoEv("restart")
    /\ UNCHANGED <<now, sent, pc, tret, returned>>

\* A text message of a user of S, in a chat of C, its text in X.
TextMessage(C, S, X) ==
    /\ \E chat \in C, u \in S, text \in X : message_handler(chat, u, text)
    /\ UNCHANGED <<sent, returned>>

\* New members, a sequence of J, join.
NewMember(J) ==
    /\ \E ms \in J : new_member_handler(10, ms)
    /\ UNCHANGED <<sent, returned>>

\* The commands, sent by a user of S.
AddLink(S, L) ==
    /\ \E u \in S, arg \in L \cup {NoArgs} : cmd_addlink(10, u, arg)
    /\ UNCHANGED <<sent, returned>>

RemoveLink(S, L) ==
    /\ \E u \in S, arg \in L \cup {NoArgs} : cmd_removelink(10, u, arg)
    /\ UNCHANGED <<sent, returned>>

ListLinks(S) ==
    /\ \E u \in S : cmd_listlinks(10, u)
    /\ UNCHANGED <<sent, returned>>

Ban(N, S, T) ==
    /\ \E name \in N, u \in S, arg \in TargetArgs(T) :
           cmd_ban(name, 10, u, arg)
    /\ UNCHANGED <<sent, returned>>

Unban(S, T) ==
    /\ \E u \in S, arg \in TargetArgs(T) : cmd_unban(10, u, arg)
    /\ UNCHANGED <<sent, returned>>

Warn(S, T) ==
    /\ \E u \in S, arg \in TargetArgs(T) : cmd_warn(10, u, arg)
    /\ UNCHANGED <<sent, returned>>

Mute(N, S, T) ==
    /\ \E name \in N, u \in S, arg \in TargetArgs(T) :
           cmd_mute(name, 10, u, arg)
    /\ UNCHANGED <<sent, returned>>

\* The whole bot.  The owner and member 2 send messages and commands, the
\* commands are about member 2, and member 3 only joins.
Next ==
    \/ Tick(Deltas)
    \/ Restart
    \/ TextMessage(Chats, Senders, Texts)
    \/ NewMember({<<2>>, <<3, 2>>})
    \/ AddLink(Senders, LinkArgs)
    \/ RemoveLink(Senders, LinkArgs)
    \/ ListLinks(Senders)
    \/ Ban({"ban"}, Senders, Targets)
    \/ Unban(Senders, Targets)
    \/ Warn(Senders, Targets)
    \/ Mute({"mute"}, Senders, Targets)

Spec == Init /\ [][Next]_vars

----------------------------------------------------------------------------
(* The bot at one instant (no Tick), with every command under each of the   *)
(* names it is registered for.                                              *)

\* The texts sent: no link, a link.
CmdTexts == {<<"a">>, <<"http", "s", "://", "s">>}

NextCmd ==
    \/ Restart
    \/ TextMessage(Chats, Senders, CmdTexts)
    \/ NewMember({<<2>>, <<3, 2>>})
    \/ AddLink(Senders, LinkArgs)
    \/ RemoveLink(Senders, LinkArgs)
    \/ ListLinks(Senders)
    \/ Ban({"ban", "kick"}, Senders, Targets)
    \/ Unban(Senders, Targets)
    \/ Warn(Senders, Targets)
    \/ Mute({"mute", "unmute"}, Senders, Targets)

SpecCmd == Init /\ [][NextCmd]_vars

----------------------------------------------------------------------------
(* The spam tracker alone: members send plain messages as time passes, and  *)
(* sent keeps every time that add_message_time was called with.             *)

RateDeltas == {30, 60, 61}

RateMessage ==
    \E u \in Members :
        /\ Len(sent[u]) < MaxSent
        /\ message_handler(10, u, <<"a">>)
        /\ sent' = [sent EXCEPT ![u] = Append(@, now)]
        /\ UNCHANGED returned

NextRate ==
    \/ Tick(RateDeltas)
    \/ RateMessage

SpecRate == Init /\ [][NextRate]_vars

\* The time of the latest call of add_message_time for user u (tn).
LastSent(u) == sent[u][Len(sent[u])]

\* The calls for user u, by their place in the history.
SentAt(u) == 1..Len(sent[u])

\* C1, as stated: after calls of add_message_time for a user at
\* non-decreasing times t1 <= ... <= tn, the n-th call returns the number of
\* the ti with ti > tn - 60 s.
C1_CountStrictlyNewer ==
    (last.kind = "message" /\ last.count > 0) =>
        last.count = Cardinality({i \in SentAt(last.user) :
                         sent[last.user][i] > LastSent(last.user) - WINDOW})

\* C1, amended: the n-th call returns the number of the ti with
\* ti >= tn - 60 s: a time that is exactly 60 s old is still counted.
C1_CountNotOlder ==
    (last.kind = "message" /\ last.count > 0) =>
        last.count = Cardinality({i \in SentAt(last.user) :
                         sent[last.user][i] >= LastSent(last.user) - WINDOW})

\* A call returned 2 or more with an earlier call exactly 60 s before it and
\* another one more than 60 s before it.
C1_Witness ==
    /\ last.kind = "message"
    /\ last.count >= 2
    /\ \E i \in 1..Len(sent[last.user]) :
           sent[last.user][i] = LastSent(last.user) - WINDOW
    /\ \E i \in 1..Len(sent[last.user]) :
           sent[last.user][i] < LastSent(last.user) - WINDOW

----------------------------------------------------------------------------
(* A flood: one member sends up to MaxBurst plain messages as time passes.  *)
(* sent keeps the times of its messages and returned what warn_user_db      *)
(* returned for each of them: 0 when it was not called, -1 when a call to   *)
(* the store raised while the message was handled.                         *)

FloodDeltas == {30}
Flooders == {2}

FloodMessage ==
    \E u \in Flooders :
        /\ Len(sent[u]) < MaxBurst
        /\ message_handler(10, u, <<"a">>)
        /\ sent' = [sent EXCEPT ![u] = Append(@, now)]
        /\ returned' = [returned EXCEPT ![u] =
               Append(@, IF \E i \in 1..Len(last'.log) :
                                last'.log[i].op \in {"warn_user_db", "ban_user_db"}
                                /\ ~last'.log[i].ok
                         THEN -1 ELSE last'.cnt)]

NextFlood ==
    \/ Tick(FloodDeltas)
    \/ FloodMessage

SpecFlood == Init /\ [][NextFlood]_vars

----------------------------------------------------------------------------
(* The link filter alone: one text message of member 2, the first since the *)
(* start, for every text of at most MaxText units and every allow-list made *)
(* of the links of LinkPool.                                                *)

LinkAlphabet == Alphabet \ {"ban"}

\* The texts of 1 to n units.
TextsUpTo(n) == UNION {[1..k -> LinkAlphabet] : k \in 1..n}

\* Links the owner has added: in the other case than the text, a scheme, a
\* part of a URL that spans units.
LinkPool == {<<"A">>, <<"s">>, <<"HTTP", "s">>, <<"://", "a">>}

\* An update that has arrived and is not handled yet.
Pending(chat, u, text) == Ev("pending", chat, u, text, None, 0, 0, <<>>, FALSE)

InitLink ==
    /\ now = 0
    /\ user_msg_times = [u \in Members |-> <<>>]
    /\ bans = [u \in Members |-> NoRow]
    /\ warns = [u \in Members |-> 0]
    /\ links \in SUBSET LinkPool
    /\ last \in {Pending(10, 2, text) : text \in TextsUpTo(MaxText)}
    /\ sent = [u \in Members |-> <<>>]
    /\ pc = <<>>
    /\ tret = <<>>
    /\ db_file = <<Tables(bans, warns, links)>>
    /\ returned = [u \in Members |-> <<>>]

HandlePending ==
    /\ last.kind = "pending"
    /\ message_handler(last.chat, last.user, last.text)
    /\ UNCHANGED <<sent, returned>>

NextLink == HandlePending

SpecLink == InitLink /\ [][NextLink]_vars

----------------------------------------------------------------------------
(* Handlers that overlap.  A handler is a coroutine: it runs until its next *)
(* await (a call to the gateway), and other handlers run while it waits     *)
(* for the answer.  The tasks are spam-path runs of message_handler and     *)
(* runs of cmd_warn by the owner, the handlers that call warn_user_db; a    *)
(* step is the code of one task from one await to the next.                 *)

Tasks == 1..MaxTasks

At(at, u) == [at |-> at, u |-> u]

\* Every member has sent SPAM_MAX messages at time 0.
InitConc ==
    /\ now = 0
    /\ user_msg_times = [u \in Members |-> [i \in 1..SPAM_MAX |-> 0]]
    /\ bans = [u \in Members |-> NoRow]
    /\ warns = [u \in Members |-> 0]
    /\ links = {}
    /\ last = NoEv("start")
    /\ sent = [u \in Members |-> <<>>]
    /\ pc = [t \in Tasks |-> At("idle", None)]
    /\ tret = [t \in Tasks |-> 0]
    /\ db_file = <<Tables(bans, warns, links)>>
    /\ returned = [u \in Members |-> <<>>]

\* message_handler from its start to await msg.reply_text(... warn #...):
\* add_message_time, count > SPAM_MAX, warn_user_db.
MessageStart(t, u) ==
    LET dq == add_message_time(user_msg_times[u], now)
        w2 == warn_user_db(warns, u)
    IN /\ pc[t].at = "idle"
       /\ Len(dq) > SPAM_MAX
       /\ warns[u] < MaxWarns
       /\ user_msg_times' = [user_msg_times EXCEPT ![u] = dq]
       /\ warns' = w2
       /\ tret' = [tret EXCEPT ![t] = w2[u]]
       /\ pc' = [pc EXCEPT ![t] = At("m_reply_warn", u)]
       /\ db_file' = commit(bans, w2, links)
       /\ UNCHANGED <<now, bans, links, last, sent, returned>>

\* The reply returned (ok) or raised: if warns >= 3, on to
\* await context.bot.ban_chat_member.
MessageAfterWarnReply(t) ==
    /\ pc[t].at = "m_reply_warn"
    /\ \E ok \in BOOLEAN :
        pc' = [pc EXCEPT ![t] =
                  At(IF ok /\ tret[t] >= BAN_WARNS THEN "m_ban" ELSE "done", @.u)]
    /\ UNCHANGED <<now, user_msg_times, bans, warns, links, last, sent, tret,
                   db_file, returned>>

\* ban_chat_member returned: ban_user_db, then await the reply; or it raised:
\* await the reply of the except branch.
MessageAfterBan(t) ==
    /\ pc[t].at = "m_ban"
    /\ \E ok \in BOOLEAN :
        /\ bans' = IF ok THEN ban_user_db(bans, pc[t].u, "spam") ELSE bans
        /\ pc' = [pc EXCEPT ![t] =
                     At(IF ok THEN "m_reply_banned" ELSE "m_reply_failed", @.u)]
    /\ db_file' = IF bans' = bans THEN db_file ELSE commit(bans', warns, links)
    /\ UNCHANGED <<now, user_msg_times, warns, links, last, sent, tret, returned>>

\* The reply after the ban returned, or raised into the except branch; the
\* reply of the except branch ends the handler either way.
MessageAfterBanReply(t) ==
    /\ pc[t].at \in {"m_reply_banned", "m_reply_failed"}
    /\ \E ok \in BOOLEAN :
        pc' = [pc EXCEPT ![t] =
                  At(IF ~ok /\ @.at = "m_reply_banned" THEN "m_reply_failed"
                     ELSE "done", @.u)]
    /\ UNCHANGED <<now, user_msg_times, bans, warns, links, last, sent, tret,
                   db_file, returned>>

\* cmd_warn of the owner with a username: up to await get_chat.
WarnStartName(t, u) ==
    /\ pc[t].at = "idle"
    /\ pc' = [pc EXCEPT ![t] = At("w_resolve", u)]
    /\ UNCHANGED <<now, user_msg_times, bans, warns, links, last, sent, tret,
                   db_file, returned>>

\* cmd_warn from the target to await update.message.reply_text: with a
\* number from the start of the handler, with a username from the return of
\* get_chat (when it raises, the handler replies "User not found.").
WarnCall(t, u) ==
    /\ pc[t] \in {At("idle", None), At("w_resolve", u)}
    /\ \E ok \in BOOLEAN :
        IF ok \/ pc[t].at = "idle"
        THEN /\ warns[u] < MaxWarns
             /\ warns' = warn_user_db(warns, u)
             /\ tret' = [tret EXCEPT ![t] = warns'[u]]
             /\ pc' = [pc EXCEPT ![t] = At("w_reply", u)]
        ELSE /\ pc' = [pc EXCEPT ![t] = At("w_reply", u)]
             /\ UNCHANGED <<warns, tret>>
    /\ db_file' = IF warns' = warns THEN db_file ELSE commit(bans, warns', links)
    /\ UNCHANGED <<now, user_msg_times, bans, links, last, sent, returned>>

\* The reply of cmd_warn returned or raised.
WarnAfterReply(t) ==
    /\ pc[t].at = "w_reply"
    /\ pc' = [pc EXCEPT ![t] = At("done", @.u)]
    /\ UNCHANGED <<now, user_msg_times, bans, warns, links, last, sent, tret,
                   db_file, returned>>

NextConc ==
    \/ \E t \in Tasks, u \in Members : MessageStart(t, u)
    \/ \E t \in Tasks : MessageAfterWarnReply(t)
    \/ \E t \in Tasks : MessageAfterBan(t)
    \/ \E t \in Tasks : MessageAfterBanReply(t)
    \/ \E t \in Tasks, u \in Members : WarnStartName(t, u)
    \/ \E t \in Tasks, u \in Members : WarnCall(t, u)
    \/ \E t \in Tasks : WarnAfterReply(t)

SpecConc == InitConc /\ [][NextConc]_vars

----------------------------------------------------------------------------
(* The store alone: its functions called one after the other, in any order, *)
(* on a database that init_db has just created.                             *)

\* The reasons of ban_user_db and the links of add/remove_allowed_link.
StoreReasons == {"spam", "manual"}
StoreLinks == {<<"a">>, <<"A">>}

\* A call of a store function: its name, the user it was about (None for
\* the links), its other argument (arg), what it returned (ret; None when
\* it returns nothing) and what the row it is about was before the call
\* (before: the reason or NoRow, the count, or whether the link was there).
StoreEv(op, u, arg, ret, before) ==
    [kind |-> op, user |-> u, arg |-> arg, ret |-> ret, before |-> before]

\* What is left as it is by a call of a store function.
StoreFrame == UNCHANGED <<now, user_msg_times, sent, pc, tret>>

\* warn_user_db(u); returned keeps what it returned.
StoreWarn(u) ==
    /\ warns[u] < MaxWarns
    /\ Len(returned[u]) < MaxCalls
    /\ warns' = warn_user_db(warns, u)
    /\ returned' = [returned EXCEPT ![u] = Append(@, warn_user_db_cnt(warns, u))]
    /\ last' = StoreEv("warn_user_db", u, <<>>, warn_user_db_cnt(warns, u), warns[u])
    /\ db_file' = commit(bans, warns', links)
    /\ StoreFrame
    /\ UNCHANGED <<bans, links>>

\* reset_warns_db(u); returned keeps a 0 for it.
StoreResetWarns(u) ==
    /\ Len(returned[u]) < MaxCalls
    /\ warns' = reset_warns_db(warns, u)
    /\ returned' = [returned EXCEPT ![u] = Append(@, 0)]
    /\ last' = StoreEv("reset_warns_db", u, <<>>, None, warns[u])
    /\ db_file' = commit(bans, warns', links)
    /\ StoreFrame
    /\ UNCHANGED <<bans, links>>

\* ban_user_db(u, reason)
StoreBan(u, reason) ==
    /\ bans' = ban_user_db(bans, u, reason)
    /\ last' = StoreEv("ban_user_db", u, reason, None, bans[u])
    /\ db_file' = commit(bans', warns, links)
    /\ StoreFrame
    /\ UNCHANGED <<warns, links, returned>>

\* unban_user_db(u)
StoreUnban(u) ==
    /\ bans' = unban_user_db(bans, u)
    /\ last' = StoreEv("unban_user_db", u, <<>>, None, bans[u])
    /\ db_file' = commit(bans', warns, links)
    /\ StoreFrame
    /\ UNCHANGED <<warns, links, returned>>

\* add_allowed_link(l)
StoreAddLink(l) ==
    /\ links' = add_allowed_link(links, l)
    /\ last' = StoreEv("add_allowed_link", None, l, None, l \in links)
    /\ db_file' = commit(bans, warns, links')
    /\ StoreFrame
    /\ UNCHANGED <<bans, warns, returned>>

\* remove_allowed_link(l)
StoreRemoveLink(l) ==
    /\ links' = remove_allowed_link(links, l)
    /\ last' = StoreEv("remove_allowed_link", None, l, None, l \in links)
    /\ db_file' = commit(bans, warns, links')
    /\ StoreFrame
    /\ UNCHANGED <<bans, warns, returned>>

NextStore ==
    \/ \E u \in Members : StoreWarn(u)
    \/ \E u \in Members : StoreResetWarns(u)
    \/ \E u \in Members, reason \in StoreReasons : StoreBan(u, reason)
    \/ \E u \in Members : StoreUnban(u)
    \/ \E l \in StoreLinks : StoreAddLink(l)
    \/ \E l \in StoreLinks : StoreRemoveLink(l)

SpecStore == Init /\ [][NextStore]_vars

----------------------------------------------------------------------------
(* Reading the record of the update handled last *)

StoreOps == {"warn_user_db", "ban_user_db", "unban_user_db", "is_banned_db",
             "list_allowed_links", "add_allowed_link", "remove_allowed_link"}
StoreWrites == {"warn_user_db", "ban_user_db", "unban_user_db",
                "add_allowed_link", "remove_allowed_link"}
\* The calls to the gateway that act on a member or a message.
ModerationOps == {"delete_message", "ban_chat_member", "unban_chat_member",
                  "restrict_chat_member"}
\* The replies that report a failure, and those that report a success.
FailureTags == {"failed_ban", "need_rights", "failed"}
SuccessTags == {"banned", "removed", "banned_ok", "unbanned_ok", "done"}

Calls(ops) == {i \in 1..Len(last.log) : last.log[i].op \in ops}
CallsOk(ops) == {i \in Calls(ops) : last.log[i].ok}
CallsFailed(ops) == {i \in Calls(ops) : ~last.log[i].ok}
Replies(tags) == {i \in Calls({"reply_text"}) : last.log[i].tag \in tags}

\* No call to the store raised while the update was handled.
StoreOk == CallsFailed(StoreOps) = {}

\* The names of the calls to the gateway, in the order they were made.
GatewayOps == SelectSeq(last.log, LAMBDA c : c.op \notin StoreOps)
OpNames(log) == [i \in 1..Len(log) |-> log[i].op]

\* A text message of a member in a permitted chat that went over SPAM_MAX.
OverThreshold == last.kind = "message" /\ last.count > SPAM_MAX
\* A text message of a member in a permitted chat, not over SPAM_MAX, with a
\* link and no allowed link in it.
DisallowedLink ==
    /\ last.kind = "message"
    /\ last.count > 0
    /\ last.count <= SPAM_MAX
    /\ LINK_REGEX_findall(lower(last.text)) # {}
    /\ ~contains_allowed_link(last.text, links)

----------------------------------------------------------------------------
(* C2 *)

\* C2: a text message of a member in a permitted chat that goes over SPAM_MAX
\* calls warn_user_db exactly once, and bans the user (ban_chat_member issued
\* and the ban committed to the table) if and only if the count that
\* warn_user_db returned is >= 3.  (An update whose store call raised is
\* aborted and left out.)
C2_BanIffThirdWarn ==
    (OverThreshold /\ StoreOk) =>
        /\ Cardinality(Calls({"warn_user_db"})) = 1
        /\ last.cnt = warns[last.user]
        /\ (last.cnt >= BAN_WARNS) <=>
               /\ Calls({"ban_chat_member"}) # {}
               /\ CallsOk({"ban_user_db"}) # {}
               /\ is_banned_db(bans, last.user)

----------------------------------------------------------------------------
(* C3 *)

\* The text has a URL: "http" or "https" in either case, "://" and a
\* character that is not a blank.
HasUrl(text) ==
    \E i \in 1..Len(text) :
        /\ text[i] \in {"http", "HTTP"}
        /\ \E j \in {i + 1, i + 2} :
             /\ j + 1 <= Len(text)
             /\ text[j] = "://"
             /\ (j = i + 2 => text[i + 1] \in {"s"})
             /\ text[j + 1] # " "

\* The lowercased text has a lowercased entry of the allow-list in it.
HasAllowedLink(text, ls) == \E l \in ls : IsSubstring(lower(l), lower(text))

\* The handler took the message for one with a disallowed link: it went on
\* to delete it.
TreatedDisallowed == Calls({"delete_message"}) # {}

\* C3: a text is treated as disallowed if and only if it has an http:// or
\* https:// URL and its lowercased text has no lowercased entry of the
\* allow-list as a substring.  (Checked where the link filter ran: a message
\* of a member in a permitted chat, not over the threshold, with
\* list_allowed_links not raising.)
C3_DisallowedIffUrlAndNoAllowedLink ==
    (last.kind = "message" /\ last.count > 0 /\ last.count <= SPAM_MAX /\ StoreOk)
    => (TreatedDisallowed <=> (HasUrl(last.text) /\ ~HasAllowedLink(last.text, links)))

\* A text with a URL was let through because of an allow-list entry that
\* differs from the text in case, next to a text whose URL no entry covers.
C3_Witness ==
    /\ last.kind = "message"
    /\ HasUrl(last.text)
    /\ links = {<<"A">>}
    /\ last.text = <<"HTTP", "s", "://", "a">>
    /\ ~TreatedDisallowed
    /\ ~last.raised

----------------------------------------------------------------------------
(* C4 *)

\* C4: a text message that is not over the threshold and has a disallowed
\* link makes the gateway calls delete_message, ban_chat_member, send_message
\* (to the sender) and reply_text (the notice in the chat), in this order, and
\* leaves the sender with a row in the table bans.
C4_LinkDeleteBanNotify ==
    (DisallowedLink /\ StoreOk) =>
        /\ OpNames(GatewayOps) =
               <<"delete_message", "ban_chat_member", "send_message", "reply_text">>
        /\ Replies({"removed"}) # {}
        /\ is_banned_db(bans, last.user)

----------------------------------------------------------------------------
(* C5 *)

\* The calls about member m, in order.
CallsAbout(m) == SelectSeq(last.log, LAMBDA c : c.who = m /\ c.op \notin StoreOps)

\* C5: when members join, each banned one gets ban_chat_member then
\* unban_chat_member and no welcome, each other one gets the welcome and no
\* ban or unban.  (The tables are not written: no call of StoreWrites.)
C5_JoinBanOrWelcome ==
    (last.kind = "new_member" /\ StoreOk) =>
        /\ \A k \in 1..Len(last.text) :
             LET m == last.text[k] IN
             IF is_banned_db(bans, m)
             THEN OpNames(CallsAbout(m)) = <<"ban_chat_member", "unban_chat_member">>
             ELSE OpNames(CallsAbout(m)) = <<"reply_text">>
        /\ Calls(StoreWrites) = {}

----------------------------------------------------------------------------
(* C6 *)

\* C6: whenever the spam path, the link path or /ban calls ban_chat_member,
\* the user has a row in the table bans afterwards, whether the call
\* succeeded or raised.
C6_BanRecordedWhenAttempted ==
    (last.kind \in {"message", "ban", "kick"} /\ StoreOk) =>
        \A i \in Calls({"ban_chat_member"}) : is_banned_db(bans, last.log[i].who)

----------------------------------------------------------------------------
(* C7 *)

\* The tasks whose call of warn_user_db for user u has returned.
Warned(u) == {t \in Tasks : pc[t].u = u /\ tret[t] > 0}

\* C7: however the handlers that call warn_user_db for a user interleave,
\* when k of the calls have returned the user's count has grown by exactly k
\* (from no row) and the k values returned are distinct.
C7_NoLostWarn ==
    \A u \in Members :
        /\ warns[u] = Cardinality(Warned(u))
        /\ \A t1 \in Warned(u), t2 \in Warned(u) : t1 # t2 => tret[t1] # tret[t2]

\* Three handlers have warned the same user, none of them has finished, and
\* the first to warn is not the first to go on.
C7_Witness ==
    \E u \in Members :
        /\ Cardinality(Warned(u)) = 3
        /\ \E t1 \in Warned(u), t2 \in Warned(u) :
             /\ tret[t1] < tret[t2]
             /\ pc[t1].at = "m_reply_warn"
             /\ pc[t2].at \in {"m_ban", "w_reply"}

----------------------------------------------------------------------------
(* C8 *)

\* C8: no failure of a gateway call leaves message_handler or
\* new_member_handler as an exception.
C8_GatewayFailureCaught ==
    (last.kind \in {"message", "new_member"} /\ StoreOk) => ~last.raised

----------------------------------------------------------------------------
(* C9 *)

\* C9: when a call to the store raises while an update is handled, no
\* moderation call to the gateway was made for that update and no write to
\* the store was committed.
C9_StoreErrorFailsClosed ==
    ~StoreOk => (Calls(ModerationOps) = {} /\ CallsOk(StoreWrites) = {})

----------------------------------------------------------------------------
(* C10 *)

\* C10: when a moderation call to the gateway fails in /ban, /unban, the spam
\* path or the link path, a reply reporting the failure is sent and no reply
\* reporting a success is.
C10_FailureReported ==
    (last.kind \in {"message", "ban", "kick", "unban"}
        /\ CallsFailed({"delete_message", "ban_chat_member", "unban_chat_member"}) # {})
    => (Replies(FailureTags) # {} /\ Replies(SuccessTags) = {})

----------------------------------------------------------------------------
(* C11 *)

\* C11: a text message of the owner, or one in a chat outside the non-empty
\* ALLOWED_CHAT_IDS, is ignored: handling it makes no call to the gateway or
\* to the store and leaves the windows, the warns, the bans and the allowed
\* links (in the connection and in the file) as they were, whatever its text
\* and whatever was sent before.
C11_OwnerAndOtherChatsIgnored ==
    [][(/\ last'.kind = "message"
        /\ \/ last'.user = OWNER_ID
           \/ ALLOWED_CHAT_IDS # {} /\ last'.chat \notin ALLOWED_CHAT_IDS)
       => /\ last'.log = <<>>
          /\ ~last'.raised
          /\ UNCHANGED <<user_msg_times, bans, warns, links, db_file>>]_vars

\* A member who has sent SPAM_MAX messages in the permitted chat within the
\* window sends a link in another chat while no link is allowed: had it been
\* handled, it would have been over the threshold.
C11_Witness ==
    /\ last.kind = "message"
    /\ last.user # OWNER_ID
    /\ last.chat \notin ALLOWED_CHAT_IDS
    /\ HasUrl(last.text)
    /\ links = {}
    /\ Len(user_msg_times[last.user]) = SPAM_MAX
    /\ user_msg_times[last.user][1] + WINDOW >= now
    /\ last.log = <<>>

----------------------------------------------------------------------------
(* C12 *)

\* C12: a restart keeps is_banned_db(u) and the warn count of every user u
\* and the allowed links as they were before it, and leaves every user's
\* window empty; the first message handled after it has count 1.
C12_RestartKeepsStoreDropsWindows ==
    [][/\ last'.kind = "restart" =>
            /\ \A u \in Members :
                 /\ is_banned_db(bans', u) = is_banned_db(bans, u)
                 /\ warns'[u] = warns[u]
                 /\ user_msg_times'[u] = <<>>
            /\ links' = links
       /\ (last.kind = "restart" /\ last'.kind = "message" /\ last'.count > 0)
            => last'.count = 1]_vars

\* A member banned for spam, with three warns, while a link is allowed, has
\* its message counted 1 at the very time it went over the threshold: the
\* process restarted in between, and the ban, the warns and the link are
\* those of before.
C12_Witness ==
    /\ last.kind = "message"
    /\ last.count = 1
    /\ now = 0
    /\ bans[last.user] = "spam"
    /\ warns[last.user] = BAN_WARNS
    /\ links # {}

----------------------------------------------------------------------------
(* C13 *)

\* C13: for every user, each call of warn_user_db returns 1 when it is the
\* first call for the user or the call before it for the user was
\* reset_warns_db, and one more than the call before it returned otherwise,
\* whatever is called for the other users in between: k calls in a row from
\* no row return 1, 2, ..., k, and a call after a reset returns 1.
C13_WarnReturnsCountUp ==
    \A u \in Members :
        \A i \in 1..Len(returned[u]) :
            \/ returned[u][i] = 0
            \/ returned[u][i] = IF i = 1 \/ returned[u][i - 1] = 0 THEN 1
                                ELSE returned[u][i - 1] + 1

\* One user was warned three times in a row, the other one was warned, reset
\* and warned again.
C13_Witness ==
    \E u \in Members, v \in Members :
        /\ returned[u] = <<1, 2, 3>>
        /\ returned[v] = <<1, 0, 1>>

----------------------------------------------------------------------------
(* C14 *)

\* C14: after ban_user_db(u, reason), is_banned_db(u) is true and the row of
\* u is the one just written, also when u had a row; after unban_user_db(u),
\* is_banned_db(u) is false, and the table is as it was when u had no row;
\* neither changes the row of any other user.
C14_BanUnbanRoundTrip ==
    [][/\ last'.kind = "ban_user_db" =>
            /\ is_banned_db(bans', last'.user)
            /\ bans'[last'.user] = last'.arg
       /\ last'.kind = "unban_user_db" =>
            /\ ~is_banned_db(bans', last'.user)
            /\ ~is_banned_db(bans, last'.user) => bans' = bans
       /\ last'.kind \in {"ban_user_db", "unban_user_db"} =>
            \A v \in Members \ {last'.user} : bans'[v] = bans[v]]_vars

\* ban_user_db on a user banned for another reason, while the other user is
\* banned too.
C14_Witness ==
    /\ last.kind = "ban_user_db"
    /\ last.before \notin {NoRow, last.arg}
    /\ bans[last.user] = last.arg
    /\ \E v \in Members \ {last.user} : is_banned_db(bans, v)

----------------------------------------------------------------------------
(* C15 *)

\* C15: after add_allowed_link(l) the table has l, and is as it was when it
\* had l already (l is the key of the table: it is there once); after
\* remove_allowed_link(l) the table has no l, and is as it was when it had
\* no l; the other links are kept by both.
C15_LinkAddRemoveIdempotent ==
    [][/\ last'.kind = "add_allowed_link" =>
            /\ last'.arg \in links'
            /\ last'.arg \in links => links' = links
       /\ last'.kind = "remove_allowed_link" =>
            /\ last'.arg \notin links'
            /\ last'.arg \notin links => links' = links
       /\ last'.kind \in {"add_allowed_link", "remove_allowed_link"} =>
            links' \ {last'.arg} = links \ {last'.arg}]_vars

\* add_allowed_link of a link that was there, next to another link.
C15_Witness ==
    /\ last.kind = "add_allowed_link"
    /\ last.before
    /\ last.arg \in links
    /\ Cardinality(links) = 2

----------------------------------------------------------------------------
(* C16 *)

\* C16: a message whose count is over SPAM_MAX is not link-checked: the
\* allow-list is not read, nothing is deleted, no private message is sent,
\* no ban for a link is written, and a ban is attempted only if warn_user_db
\* returned 3 or more; the allow-list is read only for a message whose count
\* is at most SPAM_MAX.
C16_SpamCheckBeforeLinkCheck ==
    last.kind = "message" =>
        /\ last.count > SPAM_MAX =>
              /\ Calls({"list_allowed_links", "delete_message", "send_message"}) = {}
              /\ \A i \in Calls({"ban_user_db"}) :
                     last.log[i].tag # "posted_disallowed_link"
              /\ Calls({"ban_chat_member", "ban_user_db"}) # {} =>
                     last.cnt >= BAN_WARNS
        /\ Calls({"list_allowed_links"}) # {} =>
              (last.count > 0 /\ last.count <= SPAM_MAX)

\* A message over the threshold with a link that is not allowed: the sender
\* got a first warn, the message was not deleted and the sender is not banned.
C16_Witness ==
    /\ OverThreshold
    /\ HasUrl(last.text)
    /\ ~HasAllowedLink(last.text, links)
    /\ last.cnt = 1
    /\ ~last.raised
    /\ ~TreatedDisallowed
    /\ ~is_banned_db(bans, last.user)

----------------------------------------------------------------------------
(* C17 *)

\* C17: no step of the bot (a text message, a join, a command of the owner
\* or of a member, a restart) makes the warn count of a user smaller.
C17_WarnsNeverDecrease ==
    [][\A u \in Members : warns'[u] >= warns[u]]_vars

\* The owner has unbanned (in the table and in the chat) a user who has two
\* warns.
C17_Witness ==
    /\ last.kind = "unban"
    /\ last.user = OWNER_ID
    /\ CallsOk({"unban_user_db"}) # {}
    /\ CallsOk({"unban_chat_member"}) # {}
    /\ warns[last.target] = 2
    /\ ~is_banned_db(bans, last.target)

----------------------------------------------------------------------------
(* C18 *)

\* C18: the only step after which a user who had a row in the table bans has
\* none is an /unban of the owner for that user.
C18_BanKeptUntilOwnerUnban ==
    [][\A u \in Members :
          (is_banned_db(bans, u) /\ ~is_banned_db(bans', u)) =>
              /\ last'.kind = "unban"
              /\ last'.user = OWNER_ID
              /\ last'.target = u]_vars

\* A banned user joined again: ban_chat_member and unban_chat_member were
\* called for it and returned, and it still has its row.
C18_Witness ==
    /\ last.kind = "new_member"
    /\ \E i \in CallsOk({"unban_chat_member"}) :
           is_banned_db(bans, last.log[i].who)

----------------------------------------------------------------------------
(* C20 *)

\* The commands that write the tables or act on a member.
CommandKinds == {"addlink", "removelink", "ban", "kick", "unban", "warn",
                 "mute", "unmute"}

\* The calls a step made, and the tags of its replies.
OpsOf(ev) == {ev.log[i].op : i \in 1..Len(ev.log)}
ReplyTagsOf(ev) ==
    {ev.log[i].tag : i \in {j \in 1..Len(ev.log) : ev.log[j].op = "reply_text"}}

\* The target of the command was not resolved: get_chat raised, or the
\* command answered "User not found." (an id of 0).
Unresolved(ev) ==
    \/ \E i \in 1..Len(ev.log) : ev.log[i].op = "get_chat" /\ ~ev.log[i].ok
    \/ "not_found" \in ReplyTagsOf(ev)

\* C20: a command of CommandKinds sent by another user than OWNER_ID makes
\* one call, the reply that rejects it, and leaves the bans, the warns and
\* the allowed links as they were; so does a command of the owner whose
\* target is not resolved, which replies "User not found.".
C20_OnlyOwnerCommands ==
    [][/\ (last'.kind \in CommandKinds /\ last'.user # OWNER_ID) =>
            /\ OpNames(last'.log) = <<"reply_text">>
            /\ ReplyTagsOf(last') = {"not_owner"}
            /\ UNCHANGED <<bans, warns, links, db_file>>
       /\ (last'.kind \in CommandKinds /\ Unresolved(last')) =>
            /\ OpsOf(last') \subseteq {"get_chat", "reply_text"}
            /\ ReplyTagsOf(last') = {"not_found"}
            /\ UNCHANGED <<bans, warns, links, db_file>>]_vars

\* A member sent /kick about a user who has no ban, and was rejected.
C20_Witness ==
    /\ last.kind = "kick"
    /\ last.user # OWNER_ID
    /\ Replies({"not_owner"}) # {}
    /\ \A u \in Members : ~is_banned_db(bans, u)

----------------------------------------------------------------------------
(* C19 *)

\* The messages of user u so far all lie in one window of 60 s, and no call
\* to the store raised while they were handled.
OneWindow(u) ==
    /\ sent[u] # <<>>
    /\ LastSent(u) - sent[u][1] <= WINDOW
    /\ \A i \in SentAt(u) : returned[u][i] # -1

\* What the flood of user u has led to when it lies in one window: message i
\* got warn i - SPAM_MAX when i > SPAM_MAX and none before, and the user has
\* no ban before message SPAM_MAX + 3.
FloodEscalates(u) ==
    OneWindow(u) =>
        /\ \A i \in SentAt(u) :
              returned[u][i] = IF i > SPAM_MAX THEN i - SPAM_MAX ELSE 0
        /\ Len(sent[u]) < SPAM_MAX + BAN_WARNS => ~is_banned_db(bans, u)

\* C19: every message over SPAM_MAX whose warn_user_db returns adds exactly
\* one to the sender's warns and leaves the window with all the times it
\* counted; so the messages of one window get the warns 1, 2, 3 from message
\* SPAM_MAX + 1 on, and when the warn is the third and ban_chat_member and
\* ban_user_db return, the sender is banned.
C19_EveryOverThresholdMessageWarns ==
    [][\A u \in Flooders :
          sent'[u] # sent[u] =>
              /\ (last'.count > SPAM_MAX /\ returned'[u][Len(sent'[u])] # -1) =>
                    /\ warns'[u] = warns[u] + 1
                    /\ last'.cnt = warns'[u]
                    /\ Len(user_msg_times'[u]) = last'.count
              /\ FloodEscalates(u)'
              /\ (/\ last'.cnt >= BAN_WARNS
                  /\ \E i \in 1..Len(last'.log) :
                         last'.log[i].op = "ban_chat_member" /\ last'.log[i].ok
                  /\ returned'[u][Len(sent'[u])] # -1)
                    => is_banned_db(bans', u)]_vars

\* SPAM_MAX + 3 messages within one window, not all at the same time: the
\* last three got the warns 1, 2, 3 and the last one the ban.
C19_Witness ==
    \E u \in Flooders :
        /\ Len(sent[u]) = SPAM_MAX + 3
        /\ OneWindow(u)
        /\ LastSent(u) > sent[u][1]
        /\ returned[u] = <<0, 0, 1, 2, 3>>
        /\ CallsOk({"ban_chat_member"}) # {}
        /\ bans[u] = "spam"

====
